---- MODULE Spec2Model ----
(***************************************************************************)
(* Session & streaming core of shai-http.                                  *)
(*                                                                         *)
(*   Spec        SessionManager / AgentSession / lifecycle guards, with    *)
(*               the agent task as a black box (session/*.rs)              *)
(*   FairSpec    the same, with the fairness the tokio scheduler gives     *)
(*   BatchSpec   NumTasks creation requests for pairwise distinct new ids  *)
(*               started against an empty registry                         *)
(*   StreamSpec  the event -> SSE adapter (streaming.rs)                   *)
(***************************************************************************)
EXTENDS Naturals, Sequences, FiniteSets

\* ------------------------------------------------------------------ bounds

\* operations (handle_request / cancel_session / delete_session /
\* session_count) started in one behaviour
MaxOps == 3
\* items (events, lag errors) the agent publishes to one feed
MaxFeed == 3

\* SessionManager.max_sessions = Some(max_sessions), the admission cap N
max_sessions == 1

\* concurrent HTTP handler tasks: N + 1, enough to overrun the cap
NumTasks == max_sessions + 1
\* distinct session ids requests may carry: one per handler
NumIds == NumTasks

Tasks == 1..NumTasks
Ids == 1..NumIds
\* AgentSession objects: every one is built by some handle_request
Objs == 1..MaxOps

VARIABLES
    \* ---- SessionManager
    sessions,        \* registry: id -> AgentSession object (0 = no entry)
    regHolder,       \* task holding the registry mutex across an await (0 = free)
    allow_creation,  \* SessionManager.allow_creation
    ephemeral,       \* default_config.ephemeral
    ops,             \* operations started so far
    \* ---- AgentSession objects
    nobjs,           \* objects built so far
    objSid,          \* AgentSession.session_id (0 = not built)
    agent,           \* state of the spawned agent task
    locked,          \* the controller mutex is held
    cancels,         \* detached controller.cancel() tasks spawned and not yet run
    \* ---- handler tasks
    pc,              \* position of the handler
    sid,             \* session id of the operation in progress
    obj,             \* the handler's AgentSession (Arc clone or borrow)
    last,            \* what the step just taken returned to its caller: <<task, result, value>>
    rxbuf,           \* a terminal event waits in the request's receiver
    \* ---- SSE adapter (StreamSpec)
    feed,            \* items published to the broadcast feed, in order
    closed,          \* the feed's sender is gone
    pos,             \* items the adapter has taken from the feed
    stop_on_pause,   \* parameter of the stream
    done,            \* the `done` flag of the unfold state
    ended,           \* the stream returned None or was dropped
    frames,          \* events whose frame was emitted, in order
    lifecycle,       \* the lifecycle slot of the unfold state
    is_terminal,     \* the loop's `is_terminal` for the item taken last
    \* ---- ErrorResponse (ErrorSpec)
    call,            \* the constructor call: <<name, message, type, code>>
    error,           \* the ErrorResponse built: [message, type, code]
    response,        \* into_response: [status, body]
    \* ---- AgentSession::handle_request on one trace (TurnSpec)
    trace,           \* the request's Vec<ChatMessage>
    next_msg,        \* messages of the trace the loop has been through
    sent,            \* texts given to send_user_input, in order
    reply,           \* the agent's terminal event for this turn
    \* ---- create_response_event_stream (ResponseSpec): the unfold state
    seq,             \* sequence number of the next event
    output,          \* the response's output items so far
    accumulated_text,\* text of the last assistant message
    \* ---- handle_chat_completion_non_stream (CompletionSpec)
    final_message,   \* content of the response being collected
    reasoning_steps, \* one line per tool call start and end
    \* ---- PermissionWidget (PermSpec)
    request_id,      \* the permission request the modal shows
    selected_index,  \* the highlighted choice
    scroll_offset    \* first preview line shown

mgrVars == <<sessions, regHolder, allow_creation, ephemeral, ops, nobjs, objSid,
             agent, locked, cancels, pc, sid, obj, last, rxbuf>>
strVars == <<feed, closed, pos, stop_on_pause, done, ended, frames, lifecycle,
             is_terminal>>
apiVars == <<seq, output, accumulated_text, final_message, reasoning_steps,
             request_id, selected_index, scroll_offset>>
auxVars == <<call, error, response, trace, next_msg, sent, reply, apiVars>>
vars == <<sessions, regHolder, allow_creation, ephemeral, ops, nobjs, objSid,
          agent, locked, cancels, pc, sid, obj, last, rxbuf,
          feed, closed, pos, stop_on_pause, done, ended, frames, lifecycle,
          is_terminal, call, error, response, trace, next_msg, sent, reply,
          seq, output, accumulated_text, final_message, reasoning_steps,
          request_id, selected_index, scroll_offset>>

\* ------------------------------------------------------------ SessionManager

\* sessions.len()
RegLen(s) == Cardinality({i \in Ids : s[i] # 0})

\* positions at which a handler owns an Arc<AgentSession> clone in `session`
ArcPcs == {"insert", "hr_wait", "hr_locked", "hr_sent"}

\* some Arc<AgentSession> to object o is alive: a registry entry or a handler's clone
Referenced(s, p, ob, o) ==
    \/ \E i \in Ids : s[i] = o
    \/ \E t \in Tasks : p[t] \in ArcPcs /\ ob[t] = o

\* the registry maps object o's session id to o
Registered(s, os, o) == os[o] # 0 /\ s[os[o]] = o

\* the agent task is still alive (not finished, not aborted)
Alive(a) == a \in {"running", "cancelled", "exited"}

\* the agent's event sender is gone: the task finished or was aborted
FeedClosed(a) == a \in {"done", "aborted"}

\* Drop for AgentSession: when the last Arc goes, agent_task.abort(). A task
\* parked inside agent.run() is cancelled there; one that already left run()
\* races with the abort (AbortExited).
DropSessions(a, s, p, ob) ==
    [o \in Objs |->
        IF a[o] \in {"running", "cancelled"} /\ ~Referenced(s, p, ob, o)
        THEN "aborted" ELSE a[o]]

\* a return of a manager operation by task t: <<task, result, value>>
R(t, kind) == <<t, kind, 0>>

\* the step just taken returned nothing
NoRet == <<0, "none", 0>>

\* ---- external contracts of the agent runtime (shai_core)

\* AgentBuilder::create(..).await succeeds or fails
BuildOutcomes == {"built", "failed"}

\* controller.send_user_input fails (AgentStopped) once the agent left run()
SendFails(a) == a \notin {"running", "cancelled"}

\* controller.cancel(): graceful stop request, idempotent
CancelEffect(a) == IF a = "running" THEN "cancelled" ELSE a

\* results controller.cancel() can give, a Result<(), AgentError>: Ok while
\* the agent is in run() and takes the request; once the agent has left run()
\* nobody takes it (send_user_input fails there) and the call may return Err
controller_cancel(a) ==
    IF a \in {"running", "cancelled"} THEN {"ok"} ELSE {"ok", "err"}

\* AgentSession::cancel / cancel_session on a session that is present:
\* `session.cancel(..).await?; Ok(())`
cancel_present(r) == IF r = "ok" THEN "cancel_ok" ELSE "cancel_err"

\* cancel_session on an id that is not in the registry: `Ok(())`
cancel_missing == "cancel_ok"

\* what a cancel found: 0 no session, 1 a running agent, 2 an agent already
\* cancelled or stopped
Found(a) == IF a = "running" THEN 1 ELSE 2

\* ---- lifecycle guards

\* variant: the guard is not kept in the lifecycle and drops when
\* handle_request returns
BackgroundLifecycle_new_unheld(guard) == FALSE

\* BackgroundLifecycle::new stores the owned guard: the lock stays held
BackgroundLifecycle_new(guard) == guard

\* EphemeralLifecycle::new stores the owned guard: the lock stays held
EphemeralLifecycle_new(guard) == guard

\* variant: the persistent guard cancels the agent as well
BackgroundLifecycle_drop_cancels(n) == n + 1

\* Drop for BackgroundLifecycle: nothing but the release of the guard
BackgroundLifecycle_drop(n) == n

\* variant: no cancel task is spawned
EphemeralLifecycle_drop_silent(n) == n

\* Drop for EphemeralLifecycle: tokio::spawn(ctrl.cancel()), then the release
EphemeralLifecycle_drop(n) == n + 1

\* Handler tasks are interchangeable: an incoming call is served by the
\* lowest-numbered free handler, and MaxOps calls arrive in one behaviour.
Accepts(t) ==
    /\ pc[t] = "idle" /\ ops < MaxOps
    /\ \A u \in Tasks : u < t => pc[u] # "idle"

\* ---- get_or_create_session

\* variant: the limit is tested with > instead of >=
AtCapacity_strict(s) == RegLen(s) > max_sessions

\* the admission check `sessions.len() >= max`
AtCapacity(s) == RegLen(s) >= max_sessions

\* variant: the allow_creation gate is not consulted
Lookup_ungated(s, i, allow) ==
    IF s[i] # 0 THEN "existing"
    ELSE IF RegLen(s) >= max_sessions THEN "denied"
    ELSE "create"

\* outcome of the first critical section
Lookup(s, i, allow) ==
    IF s[i] # 0 THEN "existing"
    ELSE IF ~allow THEN "disabled"
    ELSE IF AtCapacity(s) THEN "denied"
    ELSE "create"

\* `sessions.insert(session_id, session)` after the build
InsertEntry(s, i, o) == [s EXCEPT ![i] = o]

\* the epilogue's `sessions.remove(&sid_for_cleanup)`
EpilogueRemove(s, o, i) == [s EXCEPT ![i] = 0]

\* SessionManager::handle_request up to the end of the first critical
\* section of get_or_create_session
HRStart(t, i) ==
    /\ Accepts(t) /\ regHolder = 0
    /\ ops' = ops + 1
    /\ LET out == Lookup(sessions, i, allow_creation) IN
         /\ pc' = [pc EXCEPT ![t] = IF out = "existing" THEN "hr_wait"
                                    ELSE IF out = "create" THEN "building"
                                    ELSE "idle"]
         /\ obj' = [obj EXCEPT ![t] = sessions[i]]
         /\ sid' = [sid EXCEPT ![t] = IF out \in {"existing", "create"} THEN i ELSE 0]
         /\ last' = IF out \in {"disabled", "denied"} THEN R(t, out) ELSE NoRet
    /\ UNCHANGED <<sessions, regHolder, allow_creation, ephemeral, nobjs, objSid,
                   agent, locked, cancels, rxbuf>>
    /\ UNCHANGED <<strVars, auxVars>>

\* Uuid::new_v4(): an id no session and no request in progress carries
new_v4(i) == sessions[i] = 0 /\ \A u \in Tasks : sid[u] # i

\* SessionManager::handle_request with session_id = None: the id is generated
HRStartNew(t) == \E i \in Ids : new_v4(i) /\ HRStart(t, i)

\* create_session: build the agent, spawn its task, wrap it in an AgentSession
Build(t) ==
    /\ pc[t] = "building"
    /\ \E out \in BuildOutcomes :
         IF out = "built"
         THEN /\ nobjs' = nobjs + 1
              /\ objSid' = [objSid EXCEPT ![nobjs + 1] = sid[t]]
              /\ agent' = [agent EXCEPT ![nobjs + 1] = "running"]
              /\ obj' = [obj EXCEPT ![t] = nobjs + 1]
              /\ pc' = [pc EXCEPT ![t] = "insert"]
              /\ last' = NoRet
              /\ UNCHANGED sid
         ELSE /\ pc' = [pc EXCEPT ![t] = "idle"]
              /\ last' = R(t, "buildfail")
              /\ sid' = [sid EXCEPT ![t] = 0]
              /\ UNCHANGED <<nobjs, objSid, agent, obj>>
    /\ UNCHANGED <<sessions, regHolder, allow_creation, ephemeral, ops, locked,
                   cancels, rxbuf>>
    /\ UNCHANGED <<strVars, auxVars>>

\* get_or_create_session: re-acquire the registry lock and insert
Insert(t) ==
    /\ pc[t] = "insert" /\ regHolder = 0
    /\ sessions' = InsertEntry(sessions, sid[t], obj[t])
    /\ pc' = [pc EXCEPT ![t] = "hr_wait"]
    /\ agent' = DropSessions(agent, sessions', pc', obj)
    /\ last' = NoRet
    /\ UNCHANGED <<regHolder, allow_creation, ephemeral, ops, nobjs, objSid,
                   locked, cancels, sid, obj, rxbuf>>
    /\ UNCHANGED <<strVars, auxVars>>

\* controller.clone().lock_owned().await returns once the mutex is free
lock_owned(o) == ~locked[o]

\* AgentSession::handle_request: controller.lock_owned().await
Acquire(t) ==
    /\ pc[t] = "hr_wait" /\ lock_owned(obj[t])
    /\ locked' = [locked EXCEPT ![obj[t]] = TRUE]
    /\ pc' = [pc EXCEPT ![t] = "hr_locked"]
    /\ last' = NoRet
    /\ UNCHANGED <<sessions, regHolder, allow_creation, ephemeral, ops, nobjs,
                   objSid, agent, cancels, sid, obj, rxbuf>>
    /\ UNCHANGED <<strVars, auxVars>>

\* variant: the guard outlives the failed call
send_error_guard_kept(held) == held

\* `send_user_input(text).await?` returning Err: controller_guard, a local
\* of handle_request, is dropped on the way out
send_error_guard(held) == FALSE

\* AgentSession::handle_request: the loop sending the trace's user inputs;
\* an error returns through both handle_request layers, dropping guard and Arc
Send(t) ==
    /\ pc[t] = "hr_locked"
    /\ \E hasInput \in BOOLEAN :
         IF hasInput /\ SendFails(agent[obj[t]])
         THEN /\ locked' = [locked EXCEPT ![obj[t]] = send_error_guard(@)]
              /\ pc' = [pc EXCEPT ![t] = "idle"]
              /\ last' = R(t, "stopped")
              /\ sid' = [sid EXCEPT ![t] = 0]
              /\ obj' = [obj EXCEPT ![t] = 0]
              /\ agent' = DropSessions(agent, sessions, pc', obj')
         ELSE /\ pc' = [pc EXCEPT ![t] = "hr_sent"]
              /\ last' = NoRet
              /\ UNCHANGED <<locked, sid, obj, agent>>
    /\ UNCHANGED <<sessions, regHolder, allow_creation, ephemeral, ops, nobjs,
                   objSid, cancels, rxbuf>>
    /\ UNCHANGED <<strVars, auxVars>>

\* variant: the id is not handed back
returned_id_none(i) == 0

\* `Ok((request_session, session_id))`: the id the call resolved at its start
returned_id(i) == i

\* AgentSession::handle_request: resubscribe, build the lifecycle guard, return
\* the RequestSession; SessionManager::handle_request returns
\* Ok((request_session, session_id)) and drops its Arc
Subscribe(t) ==
    /\ pc[t] = "hr_sent"
    /\ pc' = [pc EXCEPT ![t] = "streaming"]
    /\ last' = <<t, "ok", returned_id(sid[t])>>
    /\ rxbuf' = [rxbuf EXCEPT ![t] = FALSE]
    /\ locked' = [locked EXCEPT ![obj[t]] =
                     IF ephemeral THEN EphemeralLifecycle_new(TRUE)
                     ELSE BackgroundLifecycle_new(TRUE)]
    /\ agent' = DropSessions(agent, sessions, pc', obj)
    /\ UNCHANGED <<sessions, regHolder, allow_creation, ephemeral, ops, nobjs,
                   objSid, cancels, sid, obj>>
    /\ UNCHANGED <<strVars, auxVars>>

\* the stream is dropped: Drop of the lifecycle guard it owns
EndStream(t) ==
    /\ pc' = [pc EXCEPT ![t] = "idle"]
    /\ rxbuf' = [rxbuf EXCEPT ![t] = FALSE]
    /\ locked' = [locked EXCEPT ![obj[t]] = FALSE]
    /\ cancels' = [cancels EXCEPT ![obj[t]] =
                     IF ephemeral THEN EphemeralLifecycle_drop(@)
                     ELSE BackgroundLifecycle_drop(@)]
    /\ sid' = [sid EXCEPT ![t] = 0]
    /\ obj' = [obj EXCEPT ![t] = 0]
    /\ last' = NoRet
    /\ UNCHANGED <<sessions, regHolder, allow_creation, ephemeral, ops, nobjs,
                   objSid, agent>>
    /\ UNCHANGED <<strVars, auxVars>>

\* the stream takes a terminal event from its receiver and ends
StreamTerminal(t) == pc[t] = "streaming" /\ rxbuf[t] /\ EndStream(t)

\* the receiver fell behind and reports Lagged (also once the agent task is
\* gone: a receiver reports Lagged before Closed): the stream ends
StreamLagged(t) == pc[t] = "streaming" /\ EndStream(t)

\* the feed is closed and drained: the stream ends
StreamClosed(t) ==
    pc[t] = "streaming" /\ ~rxbuf[t] /\ FeedClosed(agent[obj[t]]) /\ EndStream(t)

\* the client goes away and axum drops the stream
ClientDrop(t) == pc[t] = "streaming" /\ EndStream(t)

\* the task spawned by Drop for EphemeralLifecycle runs ctrl.cancel()
DetachedCancel(o) ==
    /\ cancels[o] > 0
    /\ cancels' = [cancels EXCEPT ![o] = @ - 1]
    /\ agent' = [agent EXCEPT ![o] = CancelEffect(@)]
    /\ last' = NoRet
    /\ UNCHANGED <<sessions, regHolder, allow_creation, ephemeral, ops, nobjs,
                   objSid, locked, pc, sid, obj, rxbuf>>
    /\ UNCHANGED <<strVars, auxVars>>

\* ---- the agent task spawned by create_session

\* the agent publishes a terminal event (Completed, or StatusChanged to
\* Paused): every receiver subscribed at that moment gets it
AgentPublish(o) ==
    /\ agent[o] \in {"running", "cancelled"}
    /\ \E t \in Tasks : pc[t] = "streaming" /\ obj[t] = o /\ ~rxbuf[t]
    /\ rxbuf' = [t \in Tasks |-> rxbuf[t] \/ (pc[t] = "streaming" /\ obj[t] = o)]
    /\ last' = NoRet
    /\ UNCHANGED <<sessions, regHolder, allow_creation, ephemeral, ops, nobjs,
                   objSid, agent, locked, cancels, pc, sid, obj>>
    /\ UNCHANGED <<strVars, auxVars>>

\* agent.run() returns: after a cancel, or on its own
AgentExit(o) ==
    /\ agent[o] \in {"running", "cancelled"}
    /\ agent' = [agent EXCEPT ![o] = "exited"]
    /\ last' = NoRet
    /\ UNCHANGED <<sessions, regHolder, allow_creation, ephemeral, ops, nobjs,
                   objSid, locked, cancels, pc, sid, obj, rxbuf>>
    /\ UNCHANGED <<strVars, auxVars>>

\* the cleanup epilogue: sessions_for_cleanup.lock().await.remove(&sid)
Epilogue(o) ==
    /\ agent[o] = "exited" /\ regHolder = 0
    /\ sessions' = EpilogueRemove(sessions, o, objSid[o])
    /\ agent' = DropSessions([agent EXCEPT ![o] = "done"], sessions', pc, obj)
    /\ last' = NoRet
    /\ UNCHANGED <<regHolder, allow_creation, ephemeral, ops, nobjs, objSid,
                   locked, cancels, pc, sid, obj, rxbuf>>
    /\ UNCHANGED <<strVars, auxVars>>

\* agent_task.abort() reaches a task that left run() before its epilogue ran
AbortExited(o) ==
    /\ agent[o] = "exited" /\ ~Referenced(sessions, pc, obj, o)
    /\ agent' = [agent EXCEPT ![o] = "aborted"]
    /\ last' = NoRet
    /\ UNCHANGED <<sessions, regHolder, allow_creation, ephemeral, ops, nobjs,
                   objSid, locked, cancels, pc, sid, obj, rxbuf>>
    /\ UNCHANGED <<strVars, auxVars>>

\* ---- the other SessionManager operations

\* variant: the whole registry is cleared
RemoveEntry_all(s, i) == [j \in Ids |-> 0]

\* HashMap::remove(session_id)
RemoveEntry(s, i) == [s EXCEPT ![i] = 0]

\* delete_session: sessions.lock().await.remove(session_id).is_some()
DeleteSession(t, i) ==
    /\ Accepts(t) /\ regHolder = 0
    /\ ops' = ops + 1
    /\ last' = IF sessions[i] # 0 THEN R(t, "true") ELSE R(t, "false")
    /\ sessions' = RemoveEntry(sessions, i)
    /\ agent' = DropSessions(agent, sessions', pc, obj)
    /\ UNCHANGED <<regHolder, allow_creation, ephemeral, nobjs, objSid, locked,
                   cancels, pc, sid, obj, rxbuf>>
    /\ UNCHANGED <<strVars, auxVars>>

\* cancel_session: `if let Some(session) = self.sessions.lock().await.get(id)`;
\* the guard is a temporary of the scrutinee and lives to the end of the if-let
CancelStart(t, i) ==
    /\ Accepts(t) /\ regHolder = 0
    /\ ops' = ops + 1
    /\ IF sessions[i] = 0
       THEN /\ last' = R(t, cancel_missing)
            /\ UNCHANGED <<regHolder, pc, sid, obj>>
       ELSE /\ regHolder' = t
            /\ pc' = [pc EXCEPT ![t] = "cs_wait"]
            /\ sid' = [sid EXCEPT ![t] = i]
            /\ obj' = [obj EXCEPT ![t] = sessions[i]]
            /\ last' = NoRet
    /\ UNCHANGED <<sessions, allow_creation, ephemeral, nobjs, objSid, agent,
                   locked, cancels, rxbuf>>
    /\ UNCHANGED <<strVars, auxVars>>

\* AgentSession::cancel: controller.lock_owned().await
CancelAcquire(t) ==
    /\ pc[t] = "cs_wait" /\ lock_owned(obj[t])
    /\ locked' = [locked EXCEPT ![obj[t]] = TRUE]
    /\ pc' = [pc EXCEPT ![t] = "cs_locked"]
    /\ last' = NoRet
    /\ UNCHANGED <<sessions, regHolder, allow_creation, ephemeral, ops, nobjs,
                   objSid, agent, cancels, sid, obj, rxbuf>>
    /\ UNCHANGED <<strVars, auxVars>>

\* AgentSession::cancel: controller_guard.cancel().await, then both guards drop
CancelDo(t) ==
    /\ pc[t] = "cs_locked"
    /\ agent' = [agent EXCEPT ![obj[t]] = CancelEffect(@)]
    /\ \E r \in controller_cancel(agent[obj[t]]) :
           last' = <<t, cancel_present(r), Found(agent[obj[t]])>>
    /\ locked' = [locked EXCEPT ![obj[t]] = FALSE]
    /\ regHolder' = 0
    /\ pc' = [pc EXCEPT ![t] = "idle"]
    /\ sid' = [sid EXCEPT ![t] = 0]
    /\ obj' = [obj EXCEPT ![t] = 0]
    /\ UNCHANGED <<sessions, allow_creation, ephemeral, ops, nobjs, objSid,
                   cancels, rxbuf>>
    /\ UNCHANGED <<strVars, auxVars>>

\* session_count: sessions.lock().await.len()
SessionCount(t) ==
    /\ Accepts(t) /\ regHolder = 0
    /\ ops' = ops + 1
    /\ last' = <<t, "count", RegLen(sessions)>>
    /\ UNCHANGED <<sessions, regHolder, allow_creation, ephemeral, nobjs, objSid,
                   agent, locked, cancels, pc, sid, obj, rxbuf>>
    /\ UNCHANGED <<strVars, auxVars>>

\* set_allow_creation(&mut self, allow): needs the manager exclusively, so no
\* handler is inside one of its methods
SetAllowCreation(allow) ==
    /\ \A t \in Tasks : pc[t] \in {"idle", "streaming"}
    /\ allow # allow_creation
    /\ ops < MaxOps
    /\ allow_creation' = allow
    /\ last' = NoRet
    /\ UNCHANGED <<sessions, regHolder, ephemeral, ops, nobjs, objSid, agent,
                   locked, cancels, pc, sid, obj, rxbuf>>
    /\ UNCHANGED <<strVars, auxVars>>

\* ---- specification of the session core

\* the adapter's variables, parked while the session core runs
StreamIdle ==
    /\ feed = <<>> /\ closed = FALSE /\ pos = 0 /\ stop_on_pause = FALSE
    /\ done = FALSE /\ ended = FALSE /\ frames = <<>> /\ lifecycle = "none"
    /\ is_terminal = FALSE

\* no response stream, no completion being collected, no modal on screen
ApiIdle ==
    /\ seq = 0 /\ output = <<>> /\ accumulated_text = ""
    /\ final_message = "" /\ reasoning_steps = <<>>
    /\ request_id = "" /\ selected_index = 0 /\ scroll_offset = 0

\* no ErrorResponse and no single-trace request under study
AuxIdle ==
    /\ call = <<>> /\ error = <<>> /\ response = <<>>
    /\ trace = <<>> /\ next_msg = 0 /\ sent = <<>> /\ reply = "none"
    /\ ApiIdle

\* SessionManager::new: empty registry, creation allowed
MgrInit ==
    /\ sessions = [i \in Ids |-> 0]
    /\ regHolder = 0
    /\ allow_creation = TRUE
    /\ ops = 0
    /\ nobjs = 0
    /\ objSid = [o \in Objs |-> 0]
    /\ agent = [o \in Objs |-> "none"]
    /\ locked = [o \in Objs |-> FALSE]
    /\ cancels = [o \in Objs |-> 0]
    /\ pc = [t \in Tasks |-> "idle"]
    /\ sid = [t \in Tasks |-> 0]
    /\ obj = [t \in Tasks |-> 0]
    /\ last = NoRet
    /\ rxbuf = [t \in Tasks |-> FALSE]

Init ==
    /\ MgrInit
    /\ ephemeral \in BOOLEAN
    /\ StreamIdle
    /\ AuxIdle

Next ==
    \/ \E t \in Tasks, i \in Ids : HRStart(t, i)
    \/ \E t \in Tasks : HRStartNew(t)
    \/ \E t \in Tasks : Build(t)
    \/ \E t \in Tasks : Insert(t)
    \/ \E t \in Tasks : Acquire(t)
    \/ \E t \in Tasks : Send(t)
    \/ \E t \in Tasks : Subscribe(t)
    \/ \E t \in Tasks : StreamTerminal(t)
    \/ \E t \in Tasks : StreamLagged(t)
    \/ \E t \in Tasks : StreamClosed(t)
    \/ \E t \in Tasks : ClientDrop(t)
    \/ \E o \in Objs : DetachedCancel(o)
    \/ \E o \in Objs : AgentPublish(o)
    \/ \E o \in Objs : AgentExit(o)
    \/ \E o \in Objs : Epilogue(o)
    \/ \E o \in Objs : AbortExited(o)
    \/ \E t \in Tasks, i \in Ids : DeleteSession(t, i)
    \/ \E t \in Tasks, i \in Ids : CancelStart(t, i)
    \/ \E t \in Tasks : CancelAcquire(t)
    \/ \E t \in Tasks : CancelDo(t)
    \/ \E t \in Tasks : SessionCount(t)
    \/ \E b \in BOOLEAN : SetAllowCreation(b)

Spec == Init /\ [][Next]_vars

\* ------------------------------------------------------------- SSE adapter

\* AgentEvent, by the variants the adapter tells apart; "Paused" and
\* "Running" are StatusChanged { new_status }
EventKinds == {"BrainResult", "ToolCallStarted", "ToolCallCompleted", "Running",
               "Paused", "Completed", "Error"}

\* what BroadcastStream yields: Ok(event) or Err(Lagged)
FeedItems == EventKinds \cup {"Lagged"}

\* what format_event and serde_json::to_string make of an event: a frame,
\* None (filtered), or a serialization error
FormatOutcomes == {"frame", "filtered", "unserializable"}

\* is_terminal_event(event, stop_on_pause)
is_terminal_event(event, sop) ==
    IF event = "Completed" THEN TRUE
    ELSE IF event = "Paused" THEN sop
    ELSE FALSE

\* variant: the terminal event does not set the flag
new_done_forgets(term, d) == d

\* `let new_done = if is_terminal { true } else { done };`
new_done(term, d) == IF term THEN TRUE ELSE d

\* the lifecycle slot of the unfold state: event_to_sse_stream passes
\* None::<()> ("none"), session_to_sse_stream passes Some(lifecycle) ("held");
\* "dropped" once the state that held it is gone
event_to_sse_stream == "none"

session_to_sse_stream == "held"

\* variant: ending any stream frees the controller lock
Released_always(l, lk) == FALSE

\* variant: the guard is leaked with the unfold state
Released_never(l, lk) == lk

\* the controller lock once the unfold state is dropped: a lifecycle in it
\* drops its OwnedMutexGuard, None::<()> has nothing to drop
Released(l, lk) == IF l = "held" THEN FALSE ELSE lk

\* detached cancels once the unfold state is dropped
Spawned(l, eph, n) ==
    IF l # "held" THEN n
    ELSE IF eph THEN EphemeralLifecycle_drop(n) ELSE BackgroundLifecycle_drop(n)

\* the manager's variables a lifecycle guard does not touch
mgrRest == <<sessions, regHolder, allow_creation, ephemeral, ops, nobjs, objSid,
             agent, pc, sid, obj, last, rxbuf>>

\* `return None`, or the stream is dropped: the unfold state goes, and the
\* lifecycle with it
DropState ==
    /\ lifecycle' = IF lifecycle = "held" THEN "dropped" ELSE lifecycle
    /\ locked' = [locked EXCEPT ![1] = Released(lifecycle, @)]
    /\ cancels' = [cancels EXCEPT ![1] = Spawned(lifecycle, ephemeral, @)]
    /\ UNCHANGED <<mgrRest, auxVars>>

\* `return Some((item, (rx, fmt, new_done, lifecycle)))` or `continue`: the
\* state, lifecycle included, lives on
KeepState == UNCHANGED lifecycle /\ UNCHANGED <<mgrVars, auxVars>>

\* variant: frames leave in the reverse order
Emit_front(fr, event) == <<event>> \o fr

\* `return Some((Ok(sse_event), ..))`: the frame of the event is the next item
\* of the stream
Emit(fr, event) == Append(fr, event)

\* variant: a filtered event never ends the stream
filtered_ends_never(nd) == FALSE

\* formatter returned None: `if new_done { return None; } continue;`
filtered_ends(nd) == nd

\* variant: a receive error is logged and skipped
recv_error_skipped == FALSE

\* `Some(Err(e)) => { error!(..); return None; }`
recv_error_ends == TRUE

\* the agent publishes an event, or the receiver falls behind
FeedPublish(item) ==
    /\ ~closed /\ Len(feed) < MaxFeed
    /\ feed' = Append(feed, item)
    /\ UNCHANGED <<closed, pos, stop_on_pause, done, ended, frames, lifecycle,
                   is_terminal>>
    /\ UNCHANGED <<mgrVars, auxVars>>

\* the agent goes away: the sender is dropped
FeedClose ==
    /\ ~closed
    /\ closed' = TRUE
    /\ UNCHANGED <<feed, pos, stop_on_pause, done, ended, frames, lifecycle,
                   is_terminal>>
    /\ UNCHANGED <<mgrVars, auxVars>>

\* sse_stream_internal, poll with done set: `if done { return None; }`
PollDone ==
    /\ ~ended /\ done
    /\ ended' = TRUE
    /\ DropState
    /\ UNCHANGED <<feed, closed, pos, stop_on_pause, done, frames, is_terminal>>

\* sse_stream_internal, one turn of the loop on Some(Ok(event))
TakeEvent(out) ==
    /\ ~ended /\ ~done /\ pos < Len(feed) /\ feed[pos + 1] # "Lagged"
    /\ pos' = pos + 1
    /\ is_terminal' = is_terminal_event(feed[pos + 1], stop_on_pause)
    /\ LET nd == new_done(is_terminal', done) IN
         IF out = "frame"
         THEN /\ frames' = Emit(frames, feed[pos + 1])
              /\ done' = nd
              /\ UNCHANGED ended
              /\ KeepState
         ELSE IF out = "unserializable"
         THEN /\ UNCHANGED <<frames, done, ended>>
              /\ KeepState
         ELSE /\ ended' = filtered_ends(nd)
              /\ IF ended' THEN DropState ELSE KeepState
              /\ UNCHANGED <<frames, done>>
    /\ UNCHANGED <<feed, closed, stop_on_pause>>

\* sse_stream_internal, Some(Err(e)): the receiver lagged
TakeLagged ==
    /\ ~ended /\ ~done /\ pos < Len(feed) /\ feed[pos + 1] = "Lagged"
    /\ pos' = pos + 1
    /\ ended' = recv_error_ends
    /\ IF ended' THEN DropState ELSE KeepState
    /\ UNCHANGED <<feed, closed, stop_on_pause, done, frames, is_terminal>>

\* sse_stream_internal, None: the feed is closed and drained
TakeNone ==
    /\ ~ended /\ ~done /\ pos = Len(feed) /\ closed
    /\ ended' = TRUE
    /\ DropState
    /\ UNCHANGED <<feed, closed, pos, stop_on_pause, done, frames, is_terminal>>

\* the client disconnects: axum drops the stream and with it the unfold state
StreamDropped ==
    /\ ~ended
    /\ ended' = TRUE
    /\ DropState
    /\ UNCHANGED <<feed, closed, pos, stop_on_pause, done, frames, is_terminal>>

\* A stream over the feed of session 1, for either value of stop_on_pause and
\* of the session's ephemeral flag: built by session_to_sse_stream from a
\* RequestSession (whose lifecycle holds the controller lock), or by
\* event_to_sse_stream while a writer holds the lock or nobody does
StreamInit ==
    /\ sessions = [i \in Ids |-> 0]
    /\ regHolder = 0
    /\ allow_creation = TRUE
    /\ ephemeral \in BOOLEAN
    /\ ops = 0
    /\ nobjs = 0
    /\ objSid = [o \in Objs |-> 0]
    /\ agent = [o \in Objs |-> "none"]
    /\ cancels = [o \in Objs |-> 0]
    /\ pc = [t \in Tasks |-> "idle"]
    /\ sid = [t \in Tasks |-> 0]
    /\ obj = [t \in Tasks |-> 0]
    /\ last = NoRet
    /\ rxbuf = [t \in Tasks |-> FALSE]
    /\ feed = <<>> /\ closed = FALSE /\ pos = 0
    /\ stop_on_pause \in BOOLEAN
    /\ done = FALSE /\ ended = FALSE /\ frames = <<>>
    /\ is_terminal = FALSE
    /\ AuxIdle
    /\ \E k \in {event_to_sse_stream, session_to_sse_stream}, lk \in BOOLEAN :
         /\ k = session_to_sse_stream => lk
         /\ lifecycle = k
         /\ locked = [o \in Objs |-> o = 1 /\ lk]

StreamNext ==
    \/ \E item \in FeedItems : FeedPublish(item)
    \/ FeedClose
    \/ PollDone
    \/ \E out \in FormatOutcomes : TakeEvent(out)
    \/ TakeLagged
    \/ TakeNone
    \/ StreamDropped

StreamSpec == StreamInit /\ [][StreamNext]_vars

\* ------------------------------------------------- further specifications

\* SessionManager::handle_request for the k-th of N + 1 requests, each with
\* an id of its own
BatchStart(t) == ops < NumTasks /\ HRStart(t, ops + 1)

\* create_session with an agent that builds
BuildOk(t) == Build(t) /\ pc'[t] = "insert"

\* N + 1 handle_request calls for pairwise distinct new ids against the empty
\* registry, with agents that build and keep running
BatchNext ==
    \/ \E t \in Tasks : BatchStart(t)
    \/ \E t \in Tasks : BuildOk(t)
    \/ \E t \in Tasks : Insert(t)
    \/ \E t \in Tasks : Acquire(t)
    \/ \E t \in Tasks : Send(t)
    \/ \E t \in Tasks : Subscribe(t)
    \/ \E o \in Objs : AgentPublish(o)
    \/ \E t \in Tasks : StreamTerminal(t)
    \/ \E t \in Tasks : ClientDrop(t)
    \/ \E o \in Objs : DetachedCancel(o)

BatchSpec == Init /\ [][BatchNext]_vars

\* What the tokio runtime guarantees: a spawned or awaiting task that can go
\* on is polled, and a mutex that is free is handed to a waiter. The agent
\* leaves run() once cancelled. Nothing makes a client send a request or end
\* a stream, nor the agent publish or stop on its own.
Fairness ==
    /\ \A t \in Tasks : WF_vars(Build(t))
    /\ \A t \in Tasks : WF_vars(Insert(t))
    /\ \A t \in Tasks : SF_vars(Acquire(t))
    /\ \A t \in Tasks : WF_vars(Send(t))
    /\ \A t \in Tasks : WF_vars(Subscribe(t))
    /\ \A t \in Tasks : WF_vars(StreamTerminal(t))
    /\ \A t \in Tasks : WF_vars(StreamClosed(t))
    /\ \A t \in Tasks : SF_vars(CancelAcquire(t))
    /\ \A t \in Tasks : WF_vars(CancelDo(t))
    /\ \A o \in Objs : WF_vars(DetachedCancel(o))
    /\ \A o \in Objs : WF_vars(agent[o] = "cancelled" /\ AgentExit(o))
    /\ \A o \in Objs : SF_vars(Epilogue(o))

FairSpec == Spec /\ Fairness

\* agent.run() returns because the agent was cancelled
CancelledExit(o) == agent[o] = "cancelled" /\ AgentExit(o)

\* Only handle_request calls reach the manager, with or without a session
\* id; the agents build or fail to, and leave run() when they do.
RequestNext ==
    \/ \E t \in Tasks, i \in Ids : HRStart(t, i)
    \/ \E t \in Tasks : HRStartNew(t)
    \/ \E t \in Tasks : Build(t)
    \/ \E t \in Tasks : Insert(t)
    \/ \E t \in Tasks : Acquire(t)
    \/ \E t \in Tasks : Send(t)
    \/ \E t \in Tasks : Subscribe(t)
    \/ \E t \in Tasks : StreamTerminal(t)
    \/ \E t \in Tasks : StreamLagged(t)
    \/ \E t \in Tasks : StreamClosed(t)
    \/ \E t \in Tasks : ClientDrop(t)
    \/ \E o \in Objs : DetachedCancel(o)
    \/ \E o \in Objs : AgentPublish(o)
    \/ \E o \in Objs : AgentExit(o)
    \/ \E o \in Objs : Epilogue(o)
    \/ \E o \in Objs : AbortExited(o)

\* a handler that can go on is polled, and the controller mutex, once free,
\* is handed to a waiter
RequestFairness ==
    /\ \A t \in Tasks : SF_vars(Acquire(t))
    /\ \A t \in Tasks : WF_vars(Send(t))
    /\ \A t \in Tasks : WF_vars(Subscribe(t))

RequestSpec == Init /\ [][RequestNext]_vars /\ RequestFairness

\* a task handed to tokio::spawn is run
SpawnFairness == \A o \in Objs : WF_vars(DetachedCancel(o))

\* Every handle_request names the same session id; the agents build or fail
\* to, and leave run() when they do.
TeardownNext ==
    \/ \E t \in Tasks : HRStart(t, 1)
    \/ \E t \in Tasks : Build(t)
    \/ \E t \in Tasks : Insert(t)
    \/ \E t \in Tasks : Acquire(t)
    \/ \E t \in Tasks : Send(t)
    \/ \E t \in Tasks : Subscribe(t)
    \/ \E t \in Tasks : StreamTerminal(t)
    \/ \E t \in Tasks : StreamLagged(t)
    \/ \E t \in Tasks : StreamClosed(t)
    \/ \E t \in Tasks : ClientDrop(t)
    \/ \E o \in Objs : DetachedCancel(o)
    \/ \E o \in Objs : AgentPublish(o)
    \/ \E o \in Objs : AgentExit(o)
    \/ \E o \in Objs : Epilogue(o)
    \/ \E o \in Objs : AbortExited(o)

\* those calls, with the fairness of spawned tasks only
TeardownSpec == Init /\ [][TeardownNext]_vars /\ SpawnFairness

\* a handle_request made once every earlier call has returned: each handler
\* is free or has handed out its RequestSession
HRStartAfter(t, i) ==
    (\A u \in Tasks : pc[u] \in {"idle", "streaming"}) /\ HRStart(t, i)

\* handle_request calls made one after the other, never two at a time; the
\* agents build or fail to, and leave run() when they do. Only a task's own
\* epilogue removes its entry here, so no abort() reaches a task that left
\* run().
BackToBackNext ==
    \/ \E t \in Tasks, i \in Ids : HRStartAfter(t, i)
    \/ \E t \in Tasks : Build(t)
    \/ \E t \in Tasks : Insert(t)
    \/ \E t \in Tasks : Acquire(t)
    \/ \E t \in Tasks : Send(t)
    \/ \E t \in Tasks : Subscribe(t)
    \/ \E t \in Tasks : StreamTerminal(t)
    \/ \E t \in Tasks : StreamLagged(t)
    \/ \E t \in Tasks : StreamClosed(t)
    \/ \E t \in Tasks : ClientDrop(t)
    \/ \E o \in Objs : DetachedCancel(o)
    \/ \E o \in Objs : AgentPublish(o)
    \/ \E o \in Objs : AgentExit(o)
    \/ \E o \in Objs : Epilogue(o)

BackToBackSpec == Init /\ [][BackToBackNext]_vars

\* Every handle_request comes without a session id, against a manager built
\* with either value of default_config.ephemeral (Default gives false). No
\* two calls share a session, so a stream never outlives its agent task and
\* no session loses its registry entry before its task is done.
AnonymousNext ==
    \/ \E t \in Tasks : HRStartNew(t)
    \/ \E t \in Tasks : BuildOk(t)
    \/ \E t \in Tasks : Insert(t)
    \/ \E t \in Tasks : Acquire(t)
    \/ \E t \in Tasks : Send(t)
    \/ \E t \in Tasks : Subscribe(t)
    \/ \E t \in Tasks : StreamTerminal(t)
    \/ \E t \in Tasks : StreamLagged(t)
    \/ \E t \in Tasks : ClientDrop(t)
    \/ \E o \in Objs : DetachedCancel(o)
    \/ \E o \in Objs : AgentPublish(o)
    \/ \E o \in Objs : CancelledExit(o)
    \/ \E o \in Objs : Epilogue(o)

AnonymousSpec == Init /\ [][AnonymousNext]_vars

\* ------------------------------------------------------------------ claims

\* handlers inside a section that owns the controller lock of object o: a
\* handle_request past lock_owned(), a stream with its lifecycle guard, a cancel
LockOwners(o) ==
    {t \in Tasks : obj[t] = o /\ pc[t] \in {"hr_locked", "hr_sent", "streaming",
                                            "cs_locked"}}

\* C1: for every AgentSession at most one RequestSession (or handle_request
\* still building one) owns the controller lock, and a cancel owns it only
\* while no RequestSession does; an owned lock is a locked mutex.
C1_ExclusiveWriter ==
    \A o \in Objs :
        /\ Cardinality(LockOwners(o)) <= 1
        /\ LockOwners(o) # {} => locked[o]

\* C1 witness: a stream owns the lock while another handle_request or a
\* cancel on the same session waits for it.
C1_Witness ==
    \E t \in Tasks, u \in Tasks :
        /\ pc[t] = "streaming" /\ obj[u] = obj[t]
        /\ pc[u] \in {"hr_wait", "cs_wait"}

\* C2: the registry never holds more than max_sessions entries.
C2_RegistryWithinCap == RegLen(sessions) <= max_sessions

\* every request of the batch has its answer from get_or_create_session
BatchAnswered ==
    /\ ops = NumTasks
    /\ \A t \in Tasks : pc[t] \notin {"building", "insert"}

\* C3: once the N + 1 creation requests for distinct new ids are answered,
\* exactly N of them created a session (and so exactly one was denied).
C3_ExactlyCapSucceed == BatchAnswered => nobjs = max_sessions

\* C4: a registry entry is never replaced by a different AgentSession for
\* the same id (the caller that comes second keeps the winner's session).
C4_NoOverwrite ==
    [][\A i \in Ids :
          (sessions[i] # 0 /\ sessions'[i] # 0) => sessions'[i] = sessions[i]]_vars

\* C5: for an ephemeral session, once a stream of it has ended (its guard was
\* dropped and a cancel spawned), the cancel runs, the agent task ends and
\* the session is no longer in the registry.
C5_EphemeralEvicted ==
    \A o \in Objs :
        (ephemeral /\ cancels[o] > 0)
            ~> (cancels[o] = 0 /\ ~Alive(agent[o])
                   /\ ~Registered(sessions, objSid, o))

\* C6: the id of a persistent session leaves the registry only by a
\* delete_session that returns true.
C6_PersistentStays ==
    [][\A i \in Ids :
          (~ephemeral /\ sessions[i] # 0 /\ sessions'[i] = 0)
              => \E t \in Tasks : last' = R(t, "true")]_vars

\* C7: no session is registered whose agent task has already signalled
\* teardown (run its cleanup epilogue).
C7_NoRegisteredDeadSession ==
    \A o \in Objs : Registered(sessions, objSid, o) => agent[o] # "done"

\* the last frame emitted is the frame of a terminal event
TerminalFrameOut ==
    frames # <<>> /\ is_terminal_event(frames[Len(frames)], stop_on_pause)

\* C8: once the frame of a terminal event is out, no further frame is
\* emitted and no further event is taken: the stream is done, and the next
\* thing it does is end.
C8_NothingAfterTerminalFrame ==
    [][TerminalFrameOut =>
          /\ done \/ ended
          /\ frames' = frames /\ pos' = pos
          /\ ended' \/ UNCHANGED <<done, ended, lifecycle>>]_vars

\* C8 witness: a terminal frame was emitted, the feed holds later events, and
\* the stream ended without taking them.
C8_Witness == TerminalFrameOut /\ ended /\ pos < Len(feed) /\ Len(frames) > 1

\* the policy as documented: Completed always, Paused iff ~stop_on_pause
DocumentedTerminal(event, sop) ==
    event = "Completed" \/ (event = "Paused" /\ ~sop)

\* C9: the adapter treats an event as terminal exactly when the documented
\* policy says so.
C9_TerminalPolicy ==
    (pos > 0 /\ feed[pos] # "Lagged")
        => (is_terminal <=> DocumentedTerminal(feed[pos], stop_on_pause))

\* C10: every cancel_session returns success, and one for an id that is not
\* in the registry changes neither the registry nor any session.
C10_CancelIdempotent ==
    [][/\ last'[2] \in {"cancel_ok", "cancel_err"} => last'[2] = "cancel_ok"
       /\ (last'[2] \in {"cancel_ok", "cancel_err"} /\ last'[3] = 0)
              => UNCHANGED <<sessions, objSid, agent, locked, cancels>>]_vars

\* C11: no task holds the registry mutex while it waits for an agent to be
\* built, for a session's controller lock, or for controller.cancel().
C11_RegistryLockShort ==
    \A t \in Tasks :
        pc[t] \in {"building", "hr_wait", "cs_wait", "cs_locked"} => regHolder # t

\* the stream of another request for the session id of u's call holds its
\* lifecycle guard
OtherStreamOn(u) ==
    \E t \in Tasks \ {u} : pc[t] = "streaming" /\ sid[t] = sid[u]

\* C12: of two handle_request calls made one after the other for the same
\* persistent session id, the second sends its inputs and returns its
\* RequestSession only once the first request's stream has dropped its
\* lifecycle guard.
C12_BackToBack ==
    [][\A u \in Tasks :
          (/\ ~ephemeral
           /\ \/ pc[u] = "hr_locked" /\ pc'[u] = "hr_sent"
              \/ pc[u] = "hr_sent" /\ pc'[u] = "streaming")
              => ~OtherStreamOn(u)]_vars

\* positions of a handle_request between its admission to a session and its
\* return
AdmittedPcs == {"hr_wait", "hr_locked", "hr_sent"}

\* C13 as first stated: with the registry at max_sessions entries, a
\* handle_request for an id that is not registered returns the
\* admission-denied error, builds nothing and leaves the registry as it was;
\* one for a registered id goes on with the registered session.
C13_DeniedAtCap ==
    [][\A t \in Tasks, i \in Ids :
          (HRStart(t, i) /\ RegLen(sessions) >= max_sessions)
              => /\ UNCHANGED <<sessions, nobjs, objSid, agent>>
                 /\ IF sessions[i] = 0
                    THEN last' = R(t, "denied") /\ pc'[t] = "idle"
                    ELSE /\ last' = NoRet /\ pc'[t] = "hr_wait"
                         /\ obj'[t] = sessions[i]]_vars

\* C13: with the registry at max_sessions entries, a handle_request for an id
\* that is not registered fails at once, builds nothing and leaves the
\* registry as it was, with the admission-denied error when creation is
\* allowed and the creation-disabled error when it is not; one for a
\* registered id is admitted with the registered session and builds nothing.
\* An admitted call keeps its session and builds nothing until it returns,
\* and it returns either its RequestSession on that session, with the id it
\* asked for, or the AgentStopped error of send_user_input.
C13_AdmissionAtCap ==
    [][\A t \in Tasks :
          /\ \A i \in Ids :
                (HRStart(t, i) /\ RegLen(sessions) >= max_sessions)
                    => /\ UNCHANGED <<sessions, nobjs, objSid, agent>>
                       /\ IF sessions[i] # 0
                          THEN /\ last' = NoRet /\ pc'[t] = "hr_wait"
                               /\ obj'[t] = sessions[i]
                          ELSE /\ pc'[t] = "idle"
                               /\ last' = R(t, IF allow_creation THEN "denied"
                                                ELSE "disabled")
          /\ (pc[t] \in AdmittedPcs /\ pc'[t] # pc[t])
                => /\ nobjs' = nobjs /\ sessions' = sessions
                   /\ \/ /\ pc'[t] \in AdmittedPcs \cup {"streaming"}
                         /\ obj'[t] = obj[t] /\ sid'[t] = sid[t]
                         /\ last' = IF pc'[t] = "streaming"
                                    THEN <<t, "ok", sid[t]>> ELSE NoRet
                      \/ /\ pc[t] = "hr_locked" /\ pc'[t] = "idle"
                         /\ last' = R(t, "stopped")]_vars

\* C13 witness: three calls were made and one session, an ephemeral one, was
\* built. Two RequestSessions were handed out on it: the stream of one has
\* ended (its cancel is still to run) and the other is open, so one of the
\* two calls was admitted to the registered session from the full registry
\* and returned. The third call, for another id, has just been denied.
C13_Witness ==
    /\ ephemeral /\ ops = 3 /\ nobjs = 1 /\ cancels[1] = 1
    /\ pc[2] = "streaming" /\ obj[2] = 1 /\ sessions[sid[2]] = 1
    /\ RegLen(sessions) >= max_sessions
    /\ last = R(1, "denied")

InRequest == {"hr_wait", "hr_locked", "hr_sent"}

\* C15: a handle_request without a session id never lands on a registered
\* session (its id is new: it creates or is refused); one with a session id
\* works under exactly that id; the id returned with the RequestSession is the
\* id the call resolved at its start; and a call whose id is registered uses
\* the registered AgentSession from start to return and builds no agent.
C15_SessionIdResolution ==
    [][\A t \in Tasks :
          /\ HRStartNew(t) => pc'[t] \in {"building", "idle"}
          /\ \A i \in Ids :
                HRStart(t, i) =>
                    /\ pc'[t] # "idle" => sid'[t] = i
                    /\ sessions[i] # 0 =>
                          /\ obj'[t] = sessions[i] /\ pc'[t] = "hr_wait"
                          /\ nobjs' = nobjs
          /\ (pc[t] \in InRequest /\ pc'[t] # "idle")
                 => (sid'[t] = sid[t] /\ obj'[t] = obj[t])
          /\ (pc[t] = "building" /\ pc'[t] # "idle") => sid'[t] = sid[t]
          /\ (last'[1] = t /\ last'[2] = "ok")
                 => (last'[3] = sid[t] /\ last'[3] # 0)]_vars

\* C15 witness: three calls, one agent built; a call has just returned the id
\* of the persistent session that is registered under it, and another call
\* for the same id waits on the same AgentSession.
C15_Witness ==
    /\ ~ephemeral /\ ops = 3 /\ nobjs = 1
    /\ last = <<1, "ok", sid[1]>> /\ sessions[sid[1]] = 1 /\ obj[1] = 1
    /\ pc[2] = "hr_wait" /\ obj[2] = 1 /\ sid[2] = sid[1]

\* C16: a stream built by event_to_sse_stream owns no lifecycle guard, at any
\* time: whatever it does (take events, emit frames, end in any way), the
\* controller lock stays as its writer left it, held or free, and no cancel
\* is spawned.
C16_ObserverOwnsNothing ==
    [][lifecycle = "none"
          => /\ lifecycle' = "none"
             /\ UNCHANGED <<locked, cancels, agent>>]_vars

\* C16 witness: an observer has emitted frames and ended while a writer still
\* holds the controller lock.
C16_Witness ==
    lifecycle = "none" /\ ended /\ frames # <<>> /\ locked[1] /\ cancels[1] = 0

\* C17: a stream built by session_to_sse_stream holds its lifecycle guard, and
\* the controller lock with it, exactly as long as it has not ended; the
\* guard goes in the step that ends the stream, whichever it is, and only
\* there: the lock is released and, for an ephemeral session, one cancel is
\* spawned; nothing touches lock or cancels before or after.
C17_GuardLivesWithStream ==
    [][/\ lifecycle = "held" => (~ended /\ locked[1])
       /\ lifecycle = "dropped" => ended
       /\ (lifecycle # "none" /\ ended' /\ ~ended) => lifecycle' = "dropped"
       /\ lifecycle' # lifecycle
              => /\ lifecycle = "held" /\ lifecycle' = "dropped" /\ ended'
                 /\ ~locked'[1]
                 /\ cancels'[1] = cancels[1] + (IF ephemeral THEN 1 ELSE 0)
       /\ lifecycle' = lifecycle => UNCHANGED <<locked, cancels>>]_vars

\* C17 witness: an ephemeral session's stream emitted its terminal frame, was
\* polled once more and ended: the lock is free and one cancel is spawned.
C17_Witness ==
    /\ lifecycle = "dropped" /\ ended /\ done /\ frames # <<>>
    /\ ephemeral /\ ~locked[1] /\ cancels[1] = 1

\* C18: the step that drops a persistent stream's guard releases that
\* session's controller lock and leaves every other lock, every agent task,
\* the spawned cancels and the registry as they were.
C18_BackgroundDropReleasesOnly ==
    [][\A t \in Tasks :
          (~ephemeral /\ pc[t] = "streaming" /\ pc'[t] = "idle")
              => /\ ~locked'[obj[t]]
                 /\ \A o \in Objs \ {obj[t]} : locked'[o] = locked[o]
                 /\ UNCHANGED <<sessions, agent, cancels, objSid, nobjs,
                                allow_creation, regHolder>>]_vars

\* C18 witness: a persistent session whose only stream was dropped: no handler
\* is active, the agent still runs, the session is registered, its lock free.
C18_Witness ==
    /\ ~ephemeral /\ \A t \in Tasks : pc[t] = "idle"
    /\ \E o \in Objs :
          /\ agent[o] = "running" /\ Registered(sessions, objSid, o)
          /\ ~locked[o] /\ cancels[o] = 0

\* handler t's ephemeral stream on session o is dropped in this step
EphemeralDrop(t, o) ==
    ephemeral /\ pc[t] = "streaming" /\ pc'[t] = "idle" /\ obj[t] = o

\* C19: the step that drops an ephemeral stream's guard releases the lock and
\* spawns one cancel, which has not run yet (the agent is as it was); the
\* count of spawned cancels changes only by such a drop (+1) or by one
\* detached controller.cancel() running (-1); and every spawned cancel runs.
C19_DetachedCancelOnce ==
    /\ [][\A o \in Objs :
            /\ \A t \in Tasks :
                  EphemeralDrop(t, o)
                      => /\ ~locked'[o] /\ cancels'[o] = cancels[o] + 1
                         /\ agent'[o] = agent[o]
            /\ cancels'[o] # cancels[o]
                  => \/ /\ cancels'[o] = cancels[o] + 1
                        /\ \E t \in Tasks : EphemeralDrop(t, o)
                     \/ /\ cancels'[o] = cancels[o] - 1
                        /\ agent'[o] = CancelEffect(agent[o])
                        /\ locked'[o] = locked[o]]_vars
    /\ \A o \in Objs : (cancels[o] > 0) ~> (cancels[o] = 0)

\* C19 witness: after an ephemeral stream was dropped, the next request holds
\* the session's controller lock while the spawned cancel has not run.
C19_Witness ==
    \E t \in Tasks :
        /\ ephemeral /\ pc[t] = "hr_locked"
        /\ cancels[obj[t]] = 1 /\ agent[obj[t]] = "running"

RECURSIVE IsSubsequence(_, _)
\* a is b with some elements left out
IsSubsequence(a, b) ==
    IF a = <<>> THEN TRUE
    ELSE IF b = <<>> THEN FALSE
    ELSE IF Head(a) = Head(b) THEN IsSubsequence(Tail(a), Tail(b))
    ELSE IsSubsequence(a, Tail(b))

\* in evs every ToolCallStarted comes before every ToolCallCompleted
StartBeforeCompletion(evs) ==
    \A i, j \in 1..Len(evs) :
        (evs[i] = "ToolCallCompleted" /\ evs[j] = "ToolCallStarted") => j < i

\* C20: the frames emitted are, in order, a subsequence of the events taken
\* from the feed; so when the agent publishes a tool call's start before its
\* completion, the frames keep that order.
C20_FramesInFeedOrder ==
    /\ IsSubsequence(frames, SubSeq(feed, 1, pos))
    /\ StartBeforeCompletion(feed) => StartBeforeCompletion(frames)

\* C20 witness: three events were taken, the one in the middle gave no frame,
\* and the frames of a tool call's start and completion are out in that order.
C20_Witness ==
    pos = 3 /\ frames = <<"ToolCallStarted", "ToolCallCompleted">>

\* the stream takes the next event of the feed in this step
TakesEvent == ~ended /\ pos < Len(feed) /\ pos' = pos + 1

\* C21: an event the formatter filters out puts no frame on the stream; when
\* the adapter finds it terminal the stream ends in that very step (and its
\* guard goes), when not the stream stays open, ready for the next event; and
\* a stream that has ended emits no frame and takes no event.
C21_FilteredEventStillTerminal ==
    [][/\ TakeEvent("filtered")
            => /\ frames' = frames
               /\ is_terminal' => (ended' /\ lifecycle' # "held")
               /\ ~is_terminal' => (~ended' /\ ~done' /\ lifecycle' = lifecycle)
       /\ ended => (ended' /\ frames' = frames /\ pos' = pos)]_vars

\* C21 witness: after a frame, a terminal event gave no frame and the stream
\* ended on it with later events left in the feed.
C21_Witness ==
    /\ ended /\ is_terminal /\ ~done /\ pos > 1 /\ feed[pos] = "Completed"
    /\ pos < Len(feed) /\ Len(frames) = pos - 1

\* C22: the step in which the stream takes a lag error from the feed ends
\* it: no frame is added, a lifecycle guard it holds is dropped and the lock
\* released; afterwards it emits no frame and takes no event.
C22_LagEndsStream ==
    [][/\ (TakesEvent /\ feed[pos + 1] = "Lagged")
            => /\ ended' /\ frames' = frames
               /\ lifecycle' # "held"
               /\ lifecycle = "held" => ~locked'[1]
       /\ ended => (ended' /\ frames' = frames /\ pos' = pos)]_vars

\* C22 witness: a stream with a lifecycle guard emitted a frame, then took a
\* lag error and ended, with later events left in the feed.
C22_Witness ==
    /\ ended /\ pos > 1 /\ feed[pos] = "Lagged" /\ pos < Len(feed)
    /\ frames # <<>> /\ lifecycle = "dropped" /\ ~locked[1]

\* the last Arc<AgentSession> of a built session o is gone
Unreferenced(o) == agent[o] # "none" /\ ~Referenced(sessions, pc, obj, o)

\* C23: once the last reference to an AgentSession is dropped its agent task
\* does nothing more: it publishes nothing, does not leave run(), does not run
\* its epilogue; all that can happen to it is the abort.
C23_AbortedTaskIsSilent ==
    [][\A o \in Objs :
          Unreferenced(o)
              => /\ agent'[o] \in {agent[o], "aborted"}
                 /\ agent'[o] = agent[o] \/ agent[o] # "aborted"]_vars

\* handle_request and delete_session calls only
EvictionNext ==
    \/ RequestNext
    \/ \E t \in Tasks, i \in Ids : DeleteSession(t, i)

EvictionSpec == Init /\ [][EvictionNext]_vars

\* C24: delete_session(id) returns true exactly when id was registered;
\* afterwards id is not registered and every other entry is as before (so a
\* delete_session(id) that follows at once returns false).
C24_DeleteSession ==
    [][\A t \in Tasks, i \in Ids :
          DeleteSession(t, i)
              => /\ last' = R(t, IF sessions[i] # 0 THEN "true" ELSE "false")
                 /\ sessions'[i] = 0
                 /\ \A j \in Ids \ {i} : sessions'[j] = sessions[j]]_vars

\* C24 witness: one persistent session was created and deleted (its task was
\* aborted by the drop), and the delete_session that followed returned false.
C24_Witness ==
    /\ ~ephemeral /\ ops = 3 /\ nobjs = 1 /\ agent[1] = "aborted"
    /\ RegLen(sessions) = 0 /\ last = R(1, "false")

\* cancel_session by task t waits, registry mutex in hand, for the controller
\* lock of session o, which the stream of handler u holds
CancelBehindStream(t, u, o) ==
    /\ pc[t] = "cs_wait" /\ regHolder = t /\ obj[t] = o
    /\ pc[u] = "streaming" /\ obj[u] = o /\ locked[o]

\* C29: no cycle of waits: never does a cancel_session wait (holding the
\* registry mutex) for a stream's controller lock while that stream waits
\* for the feed to close and the agent task, which closes the feed when it
\* ends, waits in its epilogue for the registry mutex.
C29_NoWaitCycle ==
    \A t \in Tasks, u \in Tasks, o \in Objs :
        ~(/\ CancelBehindStream(t, u, o)
          /\ ~rxbuf[u]
          /\ agent[o] = "exited")

\* C30: the epilogue of an agent task (the step that ends the task) leaves
\* alone every registry entry that maps to another AgentSession.
C30_EpilogueRemovesOwnEntry ==
    [][\A o \in Objs :
          (agent[o] = "exited" /\ agent'[o] = "done")
              => \A i \in Ids :
                    (sessions[i] # 0 /\ sessions[i] # o)
                        => sessions'[i] = sessions[i]]_vars

\* C27: the session of a handle_request without a session id is ephemeral:
\* the step that ends its stream spawns the cancel of its agent.
C27_AnonymousIsEphemeral ==
    [][\A t \in Tasks :
          (pc[t] = "streaming" /\ pc'[t] = "idle")
              => cancels'[obj[t]] = cancels[obj[t]] + 1]_vars

(***************************************************************************)
(* error.rs: ErrorResponse, its constructors and its HTTP answer.          *)
(* An Option is a sequence of length 0 (None) or 1 (Some).                 *)
(***************************************************************************)
None == <<>>
Some(x) == <<x>>

\* the messages, kinds and codes the constructors are tried on
Messages == {"", "Session not found", "bad json"}
Kinds == {"not_found", "invalid_request", "internal_error", "rate_limited", ""}
Codes == {None, Some("model_not_found"), Some("session_limit")}

\* ErrorResponse::new
ErrorResponse_new(message, error_type, code) ==
    [message |-> message, type |-> error_type, code |-> code]

\* ErrorResponse::not_found
not_found(message) ==
    ErrorResponse_new(message, "not_found", Some("model_not_found"))

\* ErrorResponse::invalid_request
invalid_request(message) ==
    ErrorResponse_new(message, "invalid_request", None)

\* ErrorResponse::internal_error
internal_error(message) ==
    ErrorResponse_new(message, "internal_error", None)

\* From<JsonRejection>: the rejection's body text becomes an invalid_request
from_rejection(body_text) == invalid_request(body_text)

\* a variant of the answer whose fallback arm is BAD_REQUEST
into_response_bad_request(e) ==
    [status |-> CASE e.type = "not_found" -> 404
                  [] e.type = "internal_error" -> 500
                  [] OTHER -> 400,
     body |-> e]

\* IntoResponse for ErrorResponse: the match on the kind, then Json(self)
into_response(e) ==
    [status |-> CASE e.type = "not_found" -> 404
                  [] e.type = "invalid_request" -> 400
                  [] OTHER -> 500,
     body |-> e]

\* one of the constructors is called
Construct ==
    /\ call = <<>>
    /\ \E m \in Messages :
          \/ \E k \in Kinds, c \in Codes :
                /\ call' = <<"new", m, k, c>>
                /\ error' = Some(ErrorResponse_new(m, k, c))
          \/ /\ call' = <<"not_found", m>>
             /\ error' = Some(not_found(m))
          \/ /\ call' = <<"invalid_request", m>>
             /\ error' = Some(invalid_request(m))
          \/ /\ call' = <<"internal_error", m>>
             /\ error' = Some(internal_error(m))
          \/ /\ call' = <<"from", m>>
             /\ error' = Some(from_rejection(m))
    /\ UNCHANGED <<response, trace, next_msg, sent, reply>>
    /\ UNCHANGED apiVars
    /\ UNCHANGED <<mgrVars, strVars>>

\* axum turns the handler's error into the HTTP answer
IntoResponse ==
    /\ error # None /\ response = None
    /\ response' = Some(into_response(error[1]))
    /\ UNCHANGED <<call, error, trace, next_msg, sent, reply>>
    /\ UNCHANGED apiVars
    /\ UNCHANGED <<mgrVars, strVars>>

ErrorNext == Construct \/ IntoResponse
ErrorSpec == Init /\ [][ErrorNext]_vars

\* C25: not_found is answered 404, invalid_request 400, every other kind
\* 500, and the three named constructors build exactly the kind of their
\* name with the caller's message.
C25_KindToStatus ==
    /\ error # None =>
          /\ call[1] \in {"not_found", "invalid_request", "internal_error"}
                => error[1].type = call[1] /\ error[1].message = call[2]
          /\ call[1] = "from" => error[1].type = "invalid_request"
    /\ response # None =>
          /\ response[1].body = error[1]
          /\ error[1].type = "not_found" => response[1].status = 404
          /\ error[1].type = "invalid_request" => response[1].status = 400
          /\ error[1].type \notin {"not_found", "invalid_request"}
                => response[1].status = 500

C25_Witness ==
    /\ call # <<>> /\ call[1] = "new"
    /\ error # None /\ error[1].type = "rate_limited"
    /\ response # None /\ response[1].status = 500

(***************************************************************************)
(* AgentSession::handle_request on one trace, message by message.          *)
(* A String is a sequence of characters; a ChatMessage is <<role,          *)
(* content>>; a content is <<"Text", string>>, <<"ContentPart", parts>> or *)
(* <<"None", <<>>>>; a part is <<"text", string>> or <<"image", <<>>>>.    *)
(***************************************************************************)
MaxTrace == 2

\* the messages the traces are made of
SampleMessages ==
    { <<"user", <<"Text", <<>>>>>>,
      <<"user", <<"Text", <<"a">>>>>>,
      <<"user", <<"ContentPart",
                  << <<"text", <<"a">>>>, <<"image", <<>>>>, <<"text", <<"b">>>> >>>>>>,
      <<"user", <<"ContentPart", << <<"image", <<>>>> >>>>>>,
      <<"user", <<"ContentPart", << <<"text", <<>>>>, <<"text", <<>>>> >>>>>>,
      <<"user", <<"ContentPart", <<>>>>>>,
      <<"user", <<"None", <<>>>>>>,
      <<"assistant", <<"Text", <<"a">>>>>>,
      <<"system", <<"Text", <<"b">>>>>>,
      <<"tool", <<"Text", <<"a">>>>>> }

Traces == UNION {[1..n -> SampleMessages] : n \in 0..MaxTrace}

\* `.filter_map(|p| match p { Text(text_part) => Some(text), _ => None })`
RECURSIVE filter_map_text(_)
filter_map_text(parts) ==
    IF parts = <<>> THEN <<>>
    ELSE LET rest == filter_map_text(Tail(parts)) IN
         IF Head(parts)[1] = "text" THEN <<Head(parts)[2]>> \o rest ELSE rest

\* `.collect::<Vec<_>>().join(sep)`: the pieces with sep between neighbours
RECURSIVE join(_, _)
join(v, sep) ==
    IF v = <<>> THEN <<>>
    ELSE IF Len(v) = 1 THEN Head(v)
    ELSE Head(v) \o sep \o join(Tail(v), sep)

\* the `match content` of a user message
user_text(content) ==
    IF content[1] = "Text" THEN content[2]
    ELSE IF content[1] = "ContentPart"
         THEN join(filter_map_text(content[2]), <<"\n">>)
    ELSE <<>>

\* variant: every role is replayed into the agent
input_of_any_role(msg) == user_text(msg[2])

\* one iteration of `for msg in trace`: the text the iteration hands to
\* send_user_input, or the empty string when it sends nothing
input_of(msg) == IF msg[1] = "user" THEN user_text(msg[2]) ELSE <<>>

\* the state before a handle_request(trace) on a fresh manager
TurnInit ==
    /\ MgrInit
    /\ ephemeral \in BOOLEAN
    /\ StreamIdle
    /\ call = <<>> /\ error = <<>> /\ response = <<>>
    /\ trace \in Traces /\ next_msg = 0 /\ sent = <<>> /\ reply = "none"
    /\ ApiIdle

\* SessionManager::handle_request(trace, ..): the one call under study
TurnStart(t) == ops = 0 /\ \E i \in Ids : HRStart(t, i)

\* one iteration of the loop; a failed send returns the error through both
\* handle_request layers, dropping guard and Arc
SendNext(t) ==
    /\ pc[t] = "hr_locked" /\ next_msg < Len(trace)
    /\ LET text == input_of(trace[next_msg + 1]) IN
         IF text # <<>> /\ SendFails(agent[obj[t]])
         THEN /\ locked' = [locked EXCEPT ![obj[t]] = send_error_guard(@)]
              /\ pc' = [pc EXCEPT ![t] = "idle"]
              /\ last' = R(t, "stopped")
              /\ sid' = [sid EXCEPT ![t] = 0]
              /\ obj' = [obj EXCEPT ![t] = 0]
              /\ agent' = DropSessions(agent, sessions, pc', obj')
              /\ UNCHANGED <<next_msg, sent>>
         ELSE /\ next_msg' = next_msg + 1
              /\ sent' = IF text # <<>> THEN Append(sent, text) ELSE sent
              /\ last' = NoRet
              /\ UNCHANGED <<locked, pc, sid, obj, agent>>
    /\ UNCHANGED <<sessions, regHolder, allow_creation, ephemeral, ops, nobjs,
                   objSid, cancels, rxbuf>>
    /\ UNCHANGED <<call, error, response, trace, reply>>
    /\ UNCHANGED apiVars
    /\ UNCHANGED strVars

\* the trace is exhausted: the loop is left
SendLoopDone(t) ==
    /\ pc[t] = "hr_locked" /\ next_msg = Len(trace)
    /\ pc' = [pc EXCEPT ![t] = "hr_sent"]
    /\ last' = NoRet
    /\ UNCHANGED <<sessions, regHolder, allow_creation, ephemeral, ops, nobjs,
                   objSid, agent, locked, cancels, sid, obj, rxbuf>>
    /\ UNCHANGED <<strVars, auxVars>>

\* the agent has every input of the trace and publishes the terminal event
\* that answers them: the receivers subscribed at that moment get it, a
\* receiver made by a later resubscribe() does not
AgentReply(o) ==
    /\ agent[o] \in {"running", "cancelled"}
    /\ reply = "none" /\ sent # <<>>
    /\ \A k \in (next_msg + 1)..Len(trace) : input_of(trace[k]) = <<>>
    /\ IF \E t \in Tasks : pc[t] = "streaming" /\ obj[t] = o
       THEN /\ reply' = "buffered"
            /\ rxbuf' = [t \in Tasks |->
                            rxbuf[t] \/ (pc[t] = "streaming" /\ obj[t] = o)]
       ELSE /\ reply' = "lost"
            /\ UNCHANGED rxbuf
    /\ last' = NoRet
    /\ UNCHANGED <<sessions, regHolder, allow_creation, ephemeral, ops, nobjs,
                   objSid, agent, locked, cancels, pc, sid, obj>>
    /\ UNCHANGED <<call, error, response, trace, next_msg, sent>>
    /\ UNCHANGED apiVars
    /\ UNCHANGED strVars

TurnNext ==
    \/ \E t \in Tasks :
          \/ TurnStart(t) \/ BuildOk(t) \/ Insert(t)
          \/ Acquire(t) \/ SendNext(t) \/ SendLoopDone(t) \/ Subscribe(t)
          \/ StreamTerminal(t) \/ StreamClosed(t) \/ ClientDrop(t)
    \/ \E o \in Objs :
          AgentReply(o) \/ DetachedCancel(o) \/ AgentExit(o) \/ Epilogue(o)

TurnSpec == TurnInit /\ [][TurnNext]_vars

\* the user messages of a trace, in trace order
RECURSIVE UserMessages(_)
UserMessages(tr) ==
    IF tr = <<>> THEN <<>>
    ELSE IF Head(tr)[1] = "user" THEN <<Head(tr)>> \o UserMessages(Tail(tr))
    ELSE UserMessages(Tail(tr))

\* the text parts of a multi-part content, in order
TextParts(parts) == SelectSeq(parts, LAMBDA p : p[1] = "text")

\* the strings of the text parts with a newline after each but the last
RECURSIVE NewlineJoined(_)
NewlineJoined(tp) ==
    IF Len(tp) = 0 THEN <<>>
    ELSE IF Len(tp) = 1 THEN tp[1][2]
    ELSE NewlineJoined(SubSeq(tp, 1, Len(tp) - 1)) \o <<"\n">> \o tp[Len(tp)][2]

\* the plain text of a user message
PlainText(m) ==
    CASE m[2][1] = "Text" -> m[2][2]
      [] m[2][1] = "ContentPart" -> NewlineJoined(TextParts(m[2][2]))
      [] OTHER -> <<>>

\* the non-empty texts of the user messages of a trace, in trace order
NonEmptyUserTexts(tr) ==
    LET um == UserMessages(tr)
        texts == [k \in 1..Len(um) |-> PlainText(um[k])]
    IN SelectSeq(texts, LAMBDA x : x # <<>>)

\* C26: while handle_request is in its loop, and from then on while its
\* stream lives, the controller lock is held and the inputs sent are exactly
\* the non-empty plain texts of the user messages handled so far, in trace
\* order; the subscription is taken only when the whole trace was handled.
C26_SendsUserText ==
    \A t \in Tasks :
        /\ pc[t] \in {"hr_locked", "hr_sent", "streaming"}
              => /\ locked[obj[t]]
                 /\ sent = NonEmptyUserTexts(SubSeq(trace, 1, next_msg))
        /\ pc[t] \in {"hr_sent", "streaming"}
              => /\ next_msg = Len(trace)
                 /\ sent = NonEmptyUserTexts(trace)
        /\ pc[t] \in {"building", "insert", "hr_wait"} => sent = <<>>

C26_Witness ==
    /\ pc[1] = "streaming"
    /\ Len(trace) = 2 /\ trace[1][1] = "assistant"
    /\ trace[2] = <<"user", <<"ContentPart",
                    << <<"text", <<"a">>>>, <<"image", <<>>>>, <<"text", <<"b">>>> >>>>>>
    /\ sent = << <<"a", "\n", "b">> >>

\* C28: a write stream is never left waiting for a terminal event that the
\* agent published before the stream's receiver existed.
C28_ReplyReachesStream ==
    \A t \in Tasks : pc[t] = "streaming" => reply # "lost"

\* handler t has the controller lock of session o and has sent its input
WorkSent(t, o) == obj[t] = o /\ pc[t] \in {"hr_sent", "streaming"}

\* C31: the step in which a detached cancel of an earlier request's teardown
\* runs does not cancel the agent while a later request on the same session
\* holds the controller lock with its input sent.
C31_TeardownSparesLaterRequest ==
    [][\A o \in Objs :
          (/\ cancels'[o] = cancels[o] - 1
           /\ \E t \in Tasks : WorkSent(t, o))
              => agent'[o] = agent[o]]_vars

\* C32: when the event the adapter received last was terminal, whatever its
\* frame came to (emitted, filtered or not serializable), no later step
\* emits a frame.
C32_DoneSurvivesSerializationFailure ==
    [][is_terminal => frames' = frames]_vars

\* C33: the step in which handle_request leaves its loop with an error
\* returns AgentStopped, leaves the controller lock free, spawns no cancel
\* and hands no receiver to a stream.
C33_FailedSendReleases ==
    [][\A t \in Tasks :
          (pc[t] = "hr_locked" /\ pc'[t] = "idle")
              => /\ last' = R(t, "stopped")
                 /\ ~locked'[obj[t]]
                 /\ cancels' = cancels
                 /\ rxbuf' = rxbuf]_vars

\* C33 witness: a handle_request has just failed with AgentStopped on a
\* session whose agent left run() after a cancel; the lock is free and no
\* cancel is pending.
C33_Witness ==
    \E t \in Tasks, o \in Objs :
        /\ last = R(t, "stopped") /\ pc[t] = "idle"
        /\ agent[o] = "exited" /\ ~locked[o] /\ cancels[o] = 0

(***************************************************************************)
(* apis/openai/response/handler.rs: create_response_event_stream.          *)
(* An agent event is a tuple headed by its kind; what the stream yields is *)
(* kept in `frames`, the items for which the unfold returned Some(event).  *)
(* Vec indices are 0-based as in the source: item k of `output` is         *)
(* output[k + 1].                                                          *)
(***************************************************************************)
ToolIds == {"call_1", "call_2"}

\* the items the receiver can yield
ResponseFeedItems ==
    { <<"BrainResult", Some("draft")>>, <<"BrainResult", None>>,
      <<"Completed", "", TRUE>>, <<"Completed", "final", FALSE>>,
      <<"StatusChanged", "Paused">>, <<"StatusChanged", "Running">>,
      <<"Error">>, <<"UserInput">>, <<"Lagged">> }
    \cup {<<"ToolCallStarted", id>> : id \in ToolIds}
    \cup {<<"ToolCallCompleted", id, r>> : id \in ToolIds, r \in {"Success", "Denied"}}

ResponseFeeds == UNION {[1..n -> ResponseFeedItems] : n \in 0..MaxFeed}

\* ResponseStreamEvent constructors: each carries the sequence number given
created(n) == <<"response.created", n>>
output_item_added(n, index, item) == <<"response.output_item.added", n, index, item>>
output_item_done(n, index, item) == <<"response.output_item.done", n, index, item>>
completed(n, status, out) == <<"response.completed", n, status, out>>

\* ResponseOutput::FunctionToolCall and ResponseOutput::Message
FunctionToolCall(id, status) == <<"FunctionToolCall", id, status>>
OutputMessage(text) == <<"Message", text>>

\* variant: the counter is not advanced
seq_kept(n) == n

\* `seq += 1`
seq_next(n) == n + 1

\* `match &result`: the status of a finished tool call
tool_status(result) == IF result = "Success" THEN "Completed" ELSE "Incomplete"

\* variant: the first output item is taken whatever its id
position_first(out, id) == IF out = <<>> THEN None ELSE Some(0)

\* `output.iter().position(|o| matches FunctionToolCall with tc.id == id)`
position(out, id) ==
    LET hits == {k \in 1..Len(out) :
                    out[k][1] = "FunctionToolCall" /\ out[k][2] = id}
    IN IF hits = {} THEN None
       ELSE Some((CHOOSE k \in hits : \A j \in hits : k <= j) - 1)

\* a receiver with a feed of up to MaxFeed items, its sender alive or gone,
\* and the unfold state (rx, false, 0, Vec::new(), String::new())
ResponseInit ==
    /\ MgrInit
    /\ ephemeral = FALSE
    /\ feed \in ResponseFeeds /\ closed \in BOOLEAN
    /\ pos = 0 /\ stop_on_pause = FALSE /\ done = FALSE /\ ended = FALSE
    /\ frames = <<>> /\ lifecycle = "none" /\ is_terminal = FALSE
    /\ AuxIdle

\* what a poll leaves alone besides the unfold state
ResponseFrame ==
    /\ UNCHANGED <<feed, closed, stop_on_pause, lifecycle, is_terminal>>
    /\ UNCHANGED mgrVars
    /\ UNCHANGED <<call, error, response, trace, next_msg, sent, reply>>
    /\ UNCHANGED <<final_message, reasoning_steps, request_id, selected_index,
                   scroll_offset>>

\* poll with done set: `if done { return None; }`
ResponsePollDone ==
    /\ ~ended /\ done
    /\ ended' = TRUE
    /\ UNCHANGED <<pos, done, frames, seq, output, accumulated_text>>
    /\ ResponseFrame

\* poll with seq == 0: the initial response.created
ResponseCreated ==
    /\ ~ended /\ ~done /\ seq = 0
    /\ frames' = Append(frames, created(seq))
    /\ seq' = seq_next(seq)
    /\ UNCHANGED <<pos, done, ended, output, accumulated_text>>
    /\ ResponseFrame

\* poll that takes the next item from the receiver
ResponseTake ==
    /\ ~ended /\ ~done /\ seq # 0 /\ pos < Len(feed)
    /\ pos' = pos + 1
    /\ LET event == feed[pos + 1]
           kind == event[1]
       IN
       CASE kind = "BrainResult" ->
              /\ accumulated_text' =
                    IF event[2] # None THEN event[2][1] ELSE accumulated_text
              /\ UNCHANGED <<done, ended, frames, seq, output>>
         [] kind = "ToolCallStarted" ->
              LET tool_output == FunctionToolCall(event[2], "InProgress")
                  output_index == Len(output)
              IN /\ output' = Append(output, tool_output)
                 /\ frames' = Append(frames,
                                 output_item_added(seq, output_index, tool_output))
                 /\ seq' = seq_next(seq)
                 /\ UNCHANGED <<done, ended, accumulated_text>>
         [] kind = "ToolCallCompleted" ->
              LET found == position(output, event[2]) IN
              IF found # None
              THEN LET idx == found[1]
                       item == FunctionToolCall(event[2], tool_status(event[3]))
                   IN /\ output' = [output EXCEPT ![idx + 1] = item]
                      /\ frames' = Append(frames, output_item_done(seq, idx, item))
                      /\ seq' = seq_next(seq)
                      /\ UNCHANGED <<done, ended, accumulated_text>>
              ELSE UNCHANGED <<done, ended, frames, seq, output, accumulated_text>>
         [] kind = "Completed" ->
              /\ accumulated_text' =
                    IF event[2] # "" THEN event[2] ELSE accumulated_text
              /\ output' = Append(output, OutputMessage(accumulated_text'))
              /\ frames' = Append(frames,
                              completed(seq,
                                        IF event[3] THEN "Completed" ELSE "Failed",
                                        output'))
              /\ done' = TRUE
              /\ UNCHANGED <<ended, seq>>
         [] kind = "StatusChanged" ->
              IF event[2] = "Paused"
              THEN /\ output' = Append(output, OutputMessage(accumulated_text))
                   /\ frames' = Append(frames, completed(seq, "Incomplete", output'))
                   /\ done' = TRUE
                   /\ UNCHANGED <<ended, seq, accumulated_text>>
              ELSE UNCHANGED <<done, ended, frames, seq, output, accumulated_text>>
         [] kind \in {"Error", "Lagged"} ->
              /\ ended' = TRUE
              /\ UNCHANGED <<done, frames, seq, output, accumulated_text>>
         [] OTHER ->
              UNCHANGED <<done, ended, frames, seq, output, accumulated_text>>
    /\ ResponseFrame

\* the receiver is closed and drained: `None => None`
ResponseNone ==
    /\ ~ended /\ ~done /\ seq # 0 /\ pos = Len(feed) /\ closed
    /\ ended' = TRUE
    /\ UNCHANGED <<pos, done, frames, seq, output, accumulated_text>>
    /\ ResponseFrame

ResponseNext ==
    ResponsePollDone \/ ResponseCreated \/ ResponseTake \/ ResponseNone

ResponseSpec == ResponseInit /\ [][ResponseNext]_vars

\* C34: the events emitted are numbered 0, 1, 2, ... in the order emitted,
\* the first is response.created, and response.completed is only ever the
\* last one.
C34_SequencedEvents ==
    /\ \A k \in 1..Len(frames) : frames[k][2] = k - 1
    /\ frames # <<>> => frames[1][1] = "response.created"
    /\ \A k \in 1..Len(frames) :
          frames[k][1] = "response.completed" => k = Len(frames)
    /\ ended /\ done => frames[Len(frames)][1] = "response.completed"

C34_Witness ==
    /\ ended /\ Len(frames) = 4
    /\ frames[2][1] = "response.output_item.added"
    /\ frames[3][1] = "response.output_item.done"
    /\ frames[4][1] = "response.completed" /\ frames[4][3] = "Incomplete"

\* C35: every output_item.done follows an output_item.added for the same
\* tool call id with the same output index; a ToolCallCompleted for an id
\* that no earlier ToolCallStarted of the feed carries emits nothing and
\* leaves the sequence number as it was.
C35_DoneFollowsAdded ==
    /\ [](\A k \in 1..Len(frames) :
            frames[k][1] = "response.output_item.done"
                => \E j \in 1..(k - 1) :
                      /\ frames[j][1] = "response.output_item.added"
                      /\ frames[j][4][2] = frames[k][4][2]
                      /\ frames[j][3] = frames[k][3])
    /\ [][(/\ pos' = pos + 1
           /\ feed[pos + 1][1] = "ToolCallCompleted"
           /\ \A j \in 1..pos :
                 ~(/\ feed[j][1] = "ToolCallStarted"
                   /\ feed[j][2] = feed[pos + 1][2]))
             => frames' = frames /\ seq' = seq]_vars

C35_Witness ==
    /\ Len(feed) = 3 /\ pos = 3
    /\ feed[1] = <<"ToolCallCompleted", "call_2", "Success">>
    /\ feed[2] = <<"ToolCallStarted", "call_1">>
    /\ feed[3] = <<"ToolCallCompleted", "call_1", "Denied">>
    /\ Len(frames) = 3
    /\ frames[3] = output_item_done(2, 0, FunctionToolCall("call_1", "Incomplete"))

(***************************************************************************)
(* apis/openai/completion/handler.rs: handle_chat_completion_non_stream,   *)
(* from the BroadcastStream over request_session.event_rx to its return.   *)
(* A formatted line is a one-token string <<kind, tool name>>.             *)
(***************************************************************************)
ToolNames == {"ls"}

\* the items the receiver can yield
CompletionFeedItems ==
    { <<"BrainResult", Some("draft")>>, <<"BrainResult", None>>,
      <<"Completed", "">>, <<"Completed", "final">>,
      <<"StatusChanged", "Paused">>, <<"StatusChanged", "Running">>,
      <<"Error">>, <<"Lagged", 1>> }
    \cup {<<"ToolCallStarted", n>> : n \in ToolNames}
    \cup {<<"ToolCallCompleted", n, r>> :
             n \in ToolNames, r \in {"Success", "Error", "Denied"}}

CompletionFeeds == UNION {[1..n -> CompletionFeedItems] : n \in 0..MaxFeed}

\* `matches!(event, Completed { .. } | StatusChanged { new_status: Paused, .. })`
completion_is_terminal(event) ==
    \/ event[1] = "Completed"
    \/ event[1] = "StatusChanged" /\ event[2] = "Paused"

\* variant: an empty Completed message keeps the text collected so far
completed_message_nonempty(message, fm) == IF message # "" THEN message ELSE fm

\* `AgentEvent::Completed { message, .. } => { final_message = message; }`
completed_message(message, fm) == message

\* the line pushed for a ToolCallStarted
toolcall_step(event) == << <<"toolcall", event[2]>> >>

\* `let step = match &tool_result`: the line pushed for a ToolCallCompleted
tool_result_step(event) ==
    << << CASE event[3] = "Success" -> "tool succeeded"
            [] event[3] = "Error" -> "tool failed"
            [] OTHER -> "tool denied",
          event[2] >> >>

\* the ChatCompletionResponse: the assistant message of its single choice
ChatCompletionResponse(fm, steps) ==
    [content |-> fm,
     reasoning_content |->
         IF steps = <<>> THEN None ELSE Some(join(steps, <<"\n">>))]

\* Display of BroadcastStreamRecvError::Lagged(n)
lagged_display(item) == <<"channel lagged by ", item[2]>>

\* `format!("Event stream error: {}", e)`: a string is the sequence of its
\* pieces
stream_error_message(e) == <<"Event stream error: ">> \o e

\* the state at `BroadcastStream::new(request_session.event_rx)`: handler 1
\* has created the ephemeral session 1 (`create_new_session(.., true)`), its
\* agent runs, and the RequestSession it got from handle_request holds the
\* controller lock in an EphemeralLifecycle; the receiver has buffered the
\* events the agent published since the resubscription
CompletionInit ==
    /\ sessions = [i \in Ids |-> IF i = 1 THEN 1 ELSE 0]
    /\ regHolder = 0
    /\ allow_creation = TRUE
    /\ ephemeral = TRUE
    /\ ops = 1
    /\ nobjs = 1
    /\ objSid = [o \in Objs |-> IF o = 1 THEN 1 ELSE 0]
    /\ agent = [o \in Objs |-> IF o = 1 THEN "running" ELSE "none"]
    /\ locked = [o \in Objs |-> o = 1]
    /\ cancels = [o \in Objs |-> 0]
    /\ pc = [t \in Tasks |-> IF t = 1 THEN "streaming" ELSE "idle"]
    /\ sid = [t \in Tasks |-> IF t = 1 THEN 1 ELSE 0]
    /\ obj = [t \in Tasks |-> IF t = 1 THEN 1 ELSE 0]
    /\ last = <<1, "ok", returned_id(1)>>
    /\ rxbuf = [t \in Tasks |-> FALSE]
    /\ feed \in CompletionFeeds /\ closed = FALSE
    /\ pos = 0 /\ stop_on_pause = FALSE /\ done = FALSE /\ ended = FALSE
    /\ frames = <<>> /\ lifecycle = "held" /\ is_terminal = FALSE
    /\ AuxIdle

\* what the handler does not touch
CompletionFrame ==
    /\ UNCHANGED <<feed, closed, stop_on_pause, done, ended, frames, is_terminal>>
    /\ UNCHANGED <<sessions, regHolder, allow_creation, ephemeral, ops, nobjs,
                   objSid, rxbuf>>
    /\ UNCHANGED <<call, trace, next_msg, sent, reply>>
    /\ UNCHANGED <<seq, output, accumulated_text, request_id, selected_index,
                   scroll_offset>>

\* the loop goes on: request_session and agent_session live on
CompletionKeeps == UNCHANGED <<lifecycle, locked, cancels, pc, sid, obj, agent, last>>

\* the handler returns: request_session is dropped, and with it the
\* lifecycle (the lock is released, the ephemeral guard spawns its cancel),
\* and so is the handler's Arc of the session
CompletionReturns ==
    /\ lifecycle' = IF lifecycle = "held" THEN "dropped" ELSE lifecycle
    /\ locked' = [locked EXCEPT ![obj[1]] = Released(lifecycle, @)]
    /\ cancels' = [cancels EXCEPT ![obj[1]] = Spawned(lifecycle, ephemeral, @)]
    /\ pc' = [pc EXCEPT ![1] = "idle"]
    /\ sid' = [sid EXCEPT ![1] = 0]
    /\ obj' = [obj EXCEPT ![1] = 0]
    /\ agent' = DropSessions(agent, sessions, pc', obj')
    /\ last' = NoRet

\* one turn of `while let Some(result) = event_stream.next().await`; on a
\* terminal event the loop breaks and the response is built and returned,
\* on Err the error is returned
CompletionTake ==
    /\ pc[1] = "streaming" /\ pos < Len(feed)
    /\ pos' = pos + 1
    /\ LET event == feed[pos + 1] IN
       IF event[1] = "Lagged"
       THEN /\ error' = Some(internal_error(
                              stream_error_message(lagged_display(event))))
            /\ UNCHANGED <<response, final_message, reasoning_steps>>
            /\ CompletionReturns
       ELSE /\ final_message' =
                  CASE event[1] = "Completed" ->
                         completed_message(event[2], final_message)
                    [] event[1] = "BrainResult" /\ event[2] # None -> event[2][1]
                    [] OTHER -> final_message
            /\ reasoning_steps' =
                  CASE event[1] = "ToolCallStarted" ->
                         Append(reasoning_steps, toolcall_step(event))
                    [] event[1] = "ToolCallCompleted" ->
                         Append(reasoning_steps, tool_result_step(event))
                    [] OTHER -> reasoning_steps
            /\ UNCHANGED error
            /\ IF completion_is_terminal(event)
               THEN /\ response' = Some(ChatCompletionResponse(final_message',
                                                                reasoning_steps'))
                    /\ CompletionReturns
               ELSE /\ UNCHANGED response
                    /\ CompletionKeeps
    /\ CompletionFrame

\* the stream yields None (the agent task is gone and the receiver is
\* drained): the loop ends and the response is built and returned
CompletionClosed ==
    /\ pc[1] = "streaming" /\ pos = Len(feed) /\ FeedClosed(agent[obj[1]])
    /\ response' = Some(ChatCompletionResponse(final_message, reasoning_steps))
    /\ UNCHANGED <<pos, error, final_message, reasoning_steps>>
    /\ CompletionReturns
    /\ CompletionFrame

\* the handler, the cancel task its guard spawns, and the agent task
CompletionNext ==
    \/ CompletionTake
    \/ CompletionClosed
    \/ \E o \in Objs : DetachedCancel(o) \/ AgentExit(o) \/ Epilogue(o)

CompletionSpec == CompletionInit /\ [][CompletionNext]_vars

\* the text of the last BrainResult of evs that carries an assistant text
RECURSIVE LastBrainText(_)
LastBrainText(evs) ==
    IF evs = <<>> THEN ""
    ELSE LET e == evs[Len(evs)] IN
         IF e[1] = "BrainResult" /\ e[2] # None THEN e[2][1]
         ELSE LastBrainText(SubSeq(evs, 1, Len(evs) - 1))

\* the tool call starts and ends of evs, in order
ToolEvents(evs) ==
    SelectSeq(evs, LAMBDA e : e[1] \in {"ToolCallStarted", "ToolCallCompleted"})

\* r is one line per tool event of te, in order, with newlines between
ListsToolEvents(r, te) ==
    /\ Len(r) = 2 * Len(te) - 1
    /\ \A k \in 1..Len(te) :
          /\ r[2 * k - 1][2] = te[k][2]
          /\ (r[2 * k - 1][1] = "toolcall") = (te[k][1] = "ToolCallStarted")
    /\ \A k \in 1..(Len(te) - 1) : r[2 * k] = "\n"

\* C36: a response is returned only at the first Completed or Paused event
\* or at the end of the feed; its content is the Completed message if it
\* stopped on Completed and else the last assistant text seen; its
\* reasoning_content has one line per tool call start and end, in order,
\* and is absent without any; a receive error gives internal_error and no
\* response.
C36_SingleResponse ==
    LET seen == SubSeq(feed, 1, pos) IN
    /\ \A k \in 1..(pos - 1) :
          ~completion_is_terminal(feed[k]) /\ feed[k][1] # "Lagged"
    /\ response # None =>
          /\ error = None
          /\ \/ pos > 0 /\ completion_is_terminal(feed[pos])
             \/ pos = Len(feed) /\ FeedClosed(agent[1])
          /\ response[1].content =
                IF pos > 0 /\ feed[pos][1] = "Completed" THEN feed[pos][2]
                ELSE LastBrainText(seen)
          /\ IF ToolEvents(seen) = <<>>
             THEN response[1].reasoning_content = None
             ELSE /\ response[1].reasoning_content # None
                  /\ ListsToolEvents(response[1].reasoning_content[1],
                                     ToolEvents(seen))
    /\ error # None =>
          /\ response = None
          /\ feed[pos][1] = "Lagged"
          /\ error[1].type = "internal_error"

C36_Witness ==
    /\ feed = << <<"BrainResult", Some("draft")>>,
                 <<"ToolCallStarted", "ls">>,
                 <<"Completed", "">> >>
    /\ response # None
    /\ response[1].content = ""
    /\ response[1].reasoning_content = Some(<< <<"toolcall", "ls">> >>)

(***************************************************************************)
(* shai-cli tui/perm.rs: PermissionWidget.  `call` is the event handled    *)
(* last and `response` the PermissionModalAction it returned.              *)
(***************************************************************************)
\* lines of the preview text
MaxLines == 7

RequestIds == {"req-1", "req-2"}

KeyCodes == {"Up", "Down", "PageUp", "PageDown", "Enter", "Esc", "Tab", "Char"}

MouseEventKinds == {"ScrollUp", "ScrollDown", "Moved"}

\* variant: the selection stops at the first choice
move_up_saturating(i) == IF i = 0 THEN 0 ELSE i - 1

\* PermissionWidget::move_up
move_up(i) == IF i = 0 THEN 2 ELSE i - 1

\* PermissionWidget::move_down
move_down(i) == (i + 1) % 3

\* PermissionWidget::scroll_up: saturating_sub(1)
scroll_up(off) == IF off = 0 THEN 0 ELSE off - 1

\* PermissionWidget::scroll_down
scroll_down(off) ==
    LET max_scroll == IF MaxLines = 0 THEN 0 ELSE MaxLines - 1
    IN IF off < max_scroll THEN off + 1 ELSE off

\* `for _ in 0..n { self.scroll_up(); }`
RECURSIVE scroll_up_times(_, _)
scroll_up_times(n, off) ==
    IF n = 0 THEN off ELSE scroll_up_times(n - 1, scroll_up(off))

\* `for _ in 0..n { self.scroll_down(); }`
RECURSIVE scroll_down_times(_, _)
scroll_down_times(n, off) ==
    IF n = 0 THEN off ELSE scroll_down_times(n - 1, scroll_down(off))

\* PermissionWidget::get_selected
get_selected(i) ==
    CASE i = 0 -> "Allow"
      [] i = 1 -> "AllowAlways"
      [] i = 2 -> "Deny"
      [] OTHER -> "Deny"

\* PermissionModalAction
Nope == <<"Nope">>
Response(id, choice) == <<"Response", id, choice>>

\* PermissionWidget::new for some request
PermInit ==
    /\ MgrInit
    /\ ephemeral = FALSE
    /\ StreamIdle
    /\ call = <<>> /\ error = <<>> /\ response = <<>>
    /\ trace = <<>> /\ next_msg = 0 /\ sent = <<>> /\ reply = "none"
    /\ seq = 0 /\ output = <<>> /\ accumulated_text = ""
    /\ final_message = "" /\ reasoning_steps = <<>>
    /\ request_id \in RequestIds /\ selected_index = 0 /\ scroll_offset = 0

\* what the widget's handlers do not touch
PermFrame ==
    /\ UNCHANGED <<mgrVars, strVars>>
    /\ UNCHANGED <<error, trace, next_msg, sent, reply>>
    /\ UNCHANGED <<seq, output, accumulated_text, final_message,
                   reasoning_steps, request_id>>

\* PermissionWidget::handle_key_event
handle_key_event(code) ==
    /\ call' = <<code>>
    /\ selected_index' =
          CASE code = "Up" -> move_up(selected_index)
            [] code = "Down" -> move_down(selected_index)
            [] OTHER -> selected_index
    /\ scroll_offset' =
          CASE code = "PageUp" -> scroll_up_times(5, scroll_offset)
            [] code = "PageDown" -> scroll_down_times(5, scroll_offset)
            [] OTHER -> scroll_offset
    /\ response' =
          CASE code = "Enter" -> Response(request_id, get_selected(selected_index))
            [] code = "Esc" -> Response(request_id, "Deny")
            [] OTHER -> Nope
    /\ PermFrame

\* PermissionWidget::handle_mouse_event
handle_mouse_event(kind) ==
    /\ call' = <<"Mouse", kind>>
    /\ scroll_offset' =
          CASE kind = "ScrollUp" -> scroll_up(scroll_offset)
            [] kind = "ScrollDown" -> scroll_down(scroll_offset)
            [] OTHER -> scroll_offset
    /\ response' = Nope
    /\ UNCHANGED selected_index
    /\ PermFrame

PermNext ==
    \/ \E code \in KeyCodes : handle_key_event(code)
    \/ \E kind \in MouseEventKinds : handle_mouse_event(kind)

PermSpec == PermInit /\ [][PermNext]_vars

\* C37: the selection is always 0, 1 or 2; one step up and one step down,
\* in either order, restore it; Enter answers the choice under the
\* selection (Allow, AllowAlways, Deny) and Esc answers Deny, both with the
\* widget's request id; any other key answers nothing.
C37_PermissionModal ==
    /\ selected_index \in {0, 1, 2}
    /\ move_down(move_up(selected_index)) = selected_index
    /\ move_up(move_down(selected_index)) = selected_index
    /\ call = <<"Enter">> =>
          /\ response[1] = "Response" /\ response[2] = request_id
          /\ selected_index = 0 => response[3] = "Allow"
          /\ selected_index = 1 => response[3] = "AllowAlways"
          /\ selected_index = 2 => response[3] = "Deny"
    /\ call = <<"Esc">> => response = <<"Response", request_id, "Deny">>
    /\ (call # <<>> /\ call[1] \in KeyCodes \ {"Enter", "Esc"})
          => response = <<"Nope">>

C37_Witness ==
    /\ call = <<"Esc">> /\ selected_index = 1
    /\ response = <<"Response", request_id, "Deny">>

====
